---- MODULE Spec2Model ----
(***************************************************************************)
(* Model of src/script.py: the one-shot restructuring script that walks    *)
(* ROOT with os.walk and turns every D/name.rs into D/name/mod.rs (with a  *)
(* fixed header prepended) next to a D/name/test.rs.                       *)
(*                                                                         *)
(* The filesystem under ROOT is a set of directory paths and a map from    *)
(* file paths to file contents.  A path is the sequence of entry names     *)
(* below ROOT.  A file's content is the sequence of its characters, with   *)
(* every run of characters that holds no newline abstracted to one token.  *)
(***************************************************************************)
EXTENDS Integers, Sequences, FiniteSets, TLC

\* ------------------------------------------------------------------ bounds
\* Number of successive invocations of main().
MaxRuns == 2
\* Number of entries (directories and files) below ROOT in an initial tree.
MaxInitEntries == 3

\* --------------------------------------------------------- input universes
DirNames == {"foo", "mod", "test"}
FileNames == {"foo.rs", "mod.rs", "test.rs", "foo.txt"}

NL == "\n"
CfgText == "#[cfg(feature=test_access)]"
PubModText == "pub mod test;"
FnText == "fn x(){}"

\* script.py:7
ROOT == <<>>

\* script.py:9-13, each line as the characters it holds
HEADER_LINES == << <<CfgText, NL>>, <<PubModText, NL>>, <<NL>> >>

\* ------------------------------------------------------------ path helpers
Parent(p) == SubSeq(p, 1, Len(p) - 1)
Name(p) == p[Len(p)]
Join(d, n) == d \o <<n>>

\* str.endswith(".rs") on the file names of the model
EndsWithRs(filename) == filename \in {"foo.rs", "mod.rs", "test.rs"}

\* Path.stem on the file names of the model
Stem(filename) ==
    CASE filename = "foo.rs" -> "foo"
      [] filename = "mod.rs" -> "mod"
      [] filename = "test.rs" -> "test"
      [] filename = "foo.txt" -> "foo"

Min(a, b) == IF a < b THEN a ELSE b

IsPrefix(s, t) == Len(s) <= Len(t) /\ SubSeq(t, 1, Len(s)) = s
IsSuffix(s, t) == Len(s) <= Len(t) /\ SubSeq(t, Len(t) - Len(s) + 1, Len(t)) = s

\* ------------------------------------------------------------ file content
\* f.readlines() with newline="\n": split after every newline, no
\* translation.  A line ends at a newline or at the end of the file.
LineEnds(bytes) ==
    {i \in 1..Len(bytes) : bytes[i] = NL \/ i = Len(bytes)}

ReadLines(bytes) ==
    [j \in 1..Cardinality(LineEnds(bytes)) |->
        LET ends == LineEnds(bytes)
            e == CHOOSE x \in ends : Cardinality({y \in ends : y <= x}) = j
            b == Cardinality({i \in 1..Len(bytes) : \E y \in ends : y < e /\ i <= y})
        IN SubSeq(bytes, b + 1, e)]

\* f.writelines(lines): the lines' characters one after the other.
\* joined[i] is what the first i lines write.
WriteLines(lines) ==
    LET joined[i \in 0..Len(lines)] ==
            IF i = 0 THEN <<>> ELSE joined[i - 1] \o lines[i]
    IN joined[Len(lines)]

HeaderBytes == WriteLines(HEADER_LINES)
BodyBytes == <<FnText, NL>>

\* Contents of the files of an initial tree: empty, one line, a proper
\* prefix of the header, the header, the header and a line.
\* None begins with two copies of the header.
Contents ==
    { <<>>,
      BodyBytes,
      <<CfgText, NL, PubModText, NL>>,
      HeaderBytes,
      HeaderBytes \o BodyBytes }

\* ------------------------------------------------------------------- state
VARIABLES
    dirs,       \* the directories under ROOT (ROOT included), as paths
    files,      \* file path -> [id, bytes]; id is the file's identity (inode)
    run,        \* number of invocations of main() started so far
    pc,         \* "idle" before the first run, "walk" during a run, "done" after
    stack,      \* os.walk: the directories still to be listed, as a stack of
                \* sets of siblings, innermost level first
    top,        \* os.walk: the directory yielded last (dirpath)
    dirnames,   \* os.walk: the dirnames list yielded for top
    filenames,  \* the entries of the filenames list not yet iterated
    out,        \* the lines the current run has printed; no line is printed
                \* twice in a run and their order is the order of the visit
    last,       \* history: the last iteration of the inner for loop
    seen,       \* history: [id, path] of every file the inner loop has iterated
    entered,    \* history: the directories os.walk has listed in this run
    skipped,    \* history: [path, bytes] of the candidates the run skipped
    start,      \* history: the tree when the current run started
    orig        \* history: the files of the initial tree

vars == <<dirs, files, run, pc, stack, top, dirnames, filenames,
          out, last, seen, entered, skipped, start, orig>>

NoStep == [op |-> "none", src |-> <<>>, mod |-> <<>>, test |-> <<>>,
           before |-> <<>>, pre |-> <<>>, predirs |-> {}]

\* --------------------------------------------------------- initial trees
\* The directories and files an initial tree can hold: a module directory
\* foo with the directories a run would create in it, the candidate foo.rs
\* and a file that is no candidate directly under ROOT, and files in the
\* places where a run puts or finds files.
InitDirUniverse ==
    { <<"foo">>, <<"foo", "mod">>, <<"foo", "test">> }
InitFileUniverse ==
    { <<"foo.rs">>, <<"foo.txt">>,
      <<"foo", "mod.rs">>, <<"foo", "test.rs">>, <<"foo", "foo.rs">>,
      <<"foo", "mod", "mod.rs">>, <<"foo", "test", "mod.rs">> }

\* The directory trees below ROOT: with a directory, its parent.
DirTrees ==
    {ds \cup {ROOT} : ds \in {x \in SUBSET InitDirUniverse :
                                \A d \in x : Parent(d) \in x \cup {ROOT}}}

\* The sets of files of a tree with directories ds and at most n entries.
FileSets(ds, n) ==
    {fps \in SUBSET InitFileUniverse :
        /\ \A p \in fps : Parent(p) \in ds
        /\ (Cardinality(ds) - 1) + Cardinality(fps) <= n}

NewFile(p, born, bytes) == [id |-> [origin |-> p, born |-> born], bytes |-> bytes]

Init ==
    \E ds \in DirTrees :
      \E fps \in FileSets(ds, MaxInitEntries) :
        \E c \in {f \in [fps -> Contents] :
                     \A p \in fps : ~EndsWithRs(Name(p)) => f[p] = BodyBytes} :
          /\ dirs = ds
          /\ files = [p \in fps |-> NewFile(p, 0, c[p])]
          /\ orig = [p \in fps |-> NewFile(p, 0, c[p])]
          /\ run = 0
          /\ pc = "idle"
          /\ stack = <<>>
          /\ top = ROOT
          /\ dirnames = {}
          /\ filenames = {}
          /\ out = {}
          /\ last = NoStep
          /\ seen = {}
          /\ entered = {}
          /\ skipped = {}
          /\ start = [dirs |-> ds, files |-> [p \in fps |-> NewFile(p, 0, c[p])]]

\* ------------------------------------------------- the per-file procedure
\* script.py:22-26
source_path(dirpath, filename) == Join(dirpath, filename)
folder_path(dirpath, filename) == Join(dirpath, Stem(filename))
mod_path(dirpath, filename) == Join(folder_path(dirpath, filename), "mod.rs")
test_path(dirpath, filename) == Join(folder_path(dirpath, filename), "test.rs")

\* script.py:29  folder_path.mkdir(parents=True, exist_ok=True); the parent
\* is the directory being listed, so only folder itself can be missing
MkDir(ds, folder) == ds \cup {folder}

\* Mutant of ModExists: the guard looks for test.rs instead of mod.rs.
ModExistsLooksAtTest(fs, mp) == Join(Parent(mp), "test.rs") \in DOMAIN fs

\* script.py:33  mod_path.exists()
ModExists(fs, mp) == mp \in DOMAIN fs

\* script.py:37  shutil.move onto a path that does not exist: a rename
Move(fs, src, dst) ==
    [p \in (DOMAIN fs \ {src}) \cup {dst} |-> IF p = dst THEN fs[src] ELSE fs[p]]

\* Mutant of HeaderPresent: the lines are compared with the header as one
\* text, which no list of lines equals.
HeaderComparedToText(file_lines) == file_lines = WriteLines(HEADER_LINES)

\* Mutant of HeaderPresent: the lines are compared pairwise as far as both
\* lists go (zip), so a file shorter than the header can pass.
HeaderPresentZip(file_lines) ==
    \A i \in 1..Min(Len(HEADER_LINES), Len(file_lines)) :
        file_lines[i] = HEADER_LINES[i]

\* script.py:44  file_lines[:len(HEADER_LINES)] == HEADER_LINES
HeaderPresent(file_lines) ==
    SubSeq(file_lines, 1, Min(Len(HEADER_LINES), Len(file_lines))) = HEADER_LINES

\* Mutant of Rewrite: no seek(0) and truncate() before the write, which
\* then lands after the content that was read.
RewriteNoSeek(bytes) ==
    LET file_lines == ReadLines(bytes)
    IN IF ~HeaderPresent(file_lines)
       THEN bytes \o WriteLines(HEADER_LINES \o file_lines)
       ELSE bytes

\* script.py:40-47  the content of the file after the with block
Rewrite(bytes) ==
    LET file_lines == ReadLines(bytes)
    IN IF ~HeaderPresent(file_lines)
       THEN WriteLines(HEADER_LINES \o file_lines)
       ELSE bytes

\* script.py:50  test_path.touch(exist_ok=True)
\* an existing file keeps its entry, a missing one is created empty
Touch(fs, p, born) == fs @@ (p :> NewFile(p, born, <<>>))

\* script.py:37-50  move, rewrite in place, touch
Migrate(fs, src, mp, tp, born) ==
    Touch([Move(fs, src, mp) EXCEPT ![mp].bytes = Rewrite(@)], tp, born)

\* Mutant of OnSkip: no continue after the notice, the move goes ahead.
OnSkipFallThrough(fs, src, mp, tp, born) == Migrate(fs, src, mp, tp, born)

\* script.py:33-35  the skip branch: print and continue
OnSkip(fs, src, mp, tp, born) == fs

SkipLine(mp) == [kind |-> "SKIP", path |-> mp]
DoneLine(folder) == [kind |-> "OK", path |-> folder]

\* ---------------------------------------------------------------- actions
\* os.walk lists directory d: the dirnames and filenames it yields for it.
ListDirs(ds, d) == {n \in DirNames : Join(d, n) \in ds}
ListFiles(fs, d) == {fn \in FileNames : Join(d, fn) \in DOMAIN fs}

\* A new invocation of the script: os.walk(ROOT) lists ROOT and yields it.
StartRun ==
    /\ pc \in {"idle", "done"}
    /\ run < MaxRuns
    /\ run' = run + 1
    /\ pc' = "walk"
    /\ stack' = <<>>
    /\ top' = ROOT
    /\ dirnames' = ListDirs(dirs, ROOT)
    /\ filenames' = ListFiles(files, ROOT)
    /\ out' = {}
    /\ last' = NoStep
    /\ seen' = {}
    /\ entered' = {ROOT}
    /\ skipped' = {}
    /\ start' = [dirs |-> dirs, files |-> files]
    /\ UNCHANGED <<dirs, files, orig>>

\* One iteration of the inner for loop, script.py:18-52.
Body(filename) ==
    LET src == source_path(top, filename)
        folder == folder_path(top, filename)
        mp == mod_path(top, filename)
        tp == test_path(top, filename)
        step(op) == [op |-> op, src |-> src, mod |-> mp, test |-> tp,
                     before |-> files[src].bytes, pre |-> files, predirs |-> dirs]
    IN
    /\ pc = "walk"
    /\ filename \in filenames
    /\ filenames' = filenames \ {filename}
    /\ seen' = seen \cup {[id |-> files[src].id, path |-> src]}
    /\ IF ~EndsWithRs(filename)
       THEN /\ last' = step("ignored")
            /\ UNCHANGED <<dirs, files, out, skipped>>
       ELSE /\ dirs' = MkDir(dirs, folder)
            /\ IF ModExists(files, mp)
               THEN /\ out' = out \cup {SkipLine(mp)}
                    /\ files' = OnSkip(files, src, mp, tp, run)
                    /\ skipped' = skipped \cup {[path |-> src, bytes |-> files[src].bytes]}
                    /\ last' = step("skip")
               ELSE /\ files' = Migrate(files, src, mp, tp, run)
                    /\ out' = out \cup {DoneLine(folder)}
                    /\ last' = step("moved")
                    /\ UNCHANGED skipped
    /\ UNCHANGED <<run, pc, stack, top, dirnames, entered, start, orig>>

\* Mutant of DirsToDescend: the subdirectories are listed again after the
\* body has run.
DirsListedAfterBody(listed, dirsNow, d) == ListDirs(dirsNow, d)

\* The directories os.walk descends into after the body has run for top:
\* the dirnames list it yielded, which the body does not modify.
DirsToDescend(listed, dirsNow, d) == listed

\* The directories still to be walked once the body is over for top: top's
\* subdirectories come before the directories that were already pending.
Pending(frames, children) ==
    IF children = {} THEN frames ELSE <<children>> \o frames

\* The body is over for top: os.walk goes on with top's subdirectories, then
\* with the directories still pending; it lists the next directory and
\* yields it, or is exhausted and main() returns.  The order of siblings is
\* the order of the listing, which is arbitrary: any pending sibling of the
\* innermost level can be the next one.
Advance ==
    /\ pc = "walk"
    /\ filenames = {}
    /\ LET children == {Join(top, n) : n \in DirsToDescend(dirnames, dirs, top)}
           pending == Pending(stack, children)
       IN IF pending = <<>>
          THEN /\ pc' = "done"
               /\ UNCHANGED <<stack, top, dirnames, filenames, entered>>
          ELSE \E d \in Head(pending) :
                 /\ top' = d
                 /\ stack' = Pending(Tail(pending), Head(pending) \ {d})
                 /\ dirnames' = ListDirs(dirs, d)
                 /\ filenames' = ListFiles(files, d)
                 /\ entered' = entered \cup {d}
                 /\ UNCHANGED pc
    /\ UNCHANGED <<dirs, files, run, out, last, seen, skipped, start, orig>>

Step == (\E filename \in FileNames : Body(filename)) \/ Advance

Next == StartRun \/ (\E filename \in FileNames : Body(filename)) \/ Advance

Spec == Init /\ [][Next]_vars

\* One invocation of the script on an initial tree.  A started run is a
\* sequential program that keeps executing: its steps are weakly fair.
FirstRun == run = 0 /\ StartRun

OneRunNext == FirstRun \/ (\E filename \in FileNames : Body(filename)) \/ Advance

OneRunSpec == Init /\ [][OneRunNext]_vars /\ WF_vars(Step)

\* ================================================================ claims
StartsWithHeader(bytes) == IsPrefix(HeaderBytes, bytes)
StartsWithTwoHeaders(bytes) == IsPrefix(HeaderBytes \o HeaderBytes, bytes)
Lines(fs, p) == ReadLines(fs[p].bytes)
Tree(ds, fs) == [dirs |-> ds, files |-> [p \in DOMAIN fs |-> fs[p].bytes]]
Candidates(fs) == {p \in DOMAIN fs : EndsWithRs(Name(p))}
\* The candidates the current run has processed, and those it has migrated.
Processed == {s \in seen : EndsWithRs(Name(s.path))}
MigratedPaths == {s.path : s \in Processed} \ {s.path : s \in skipped}

\* C1 (as claimed): idempotence.  When a second run has finished, the tree
\* (directories, files, contents) is the tree the first run left.
C1_Idempotent ==
    (pc = "done" /\ run = 2) => Tree(dirs, files) = Tree(start.dirs, start.files)

\* C2 (as claimed): content preservation.  After a candidate with content C
\* has been moved, mod.rs holds the three header lines and then the lines
\* of C, whatever C is.
C2_HeaderThenContent ==
    last.op = "moved" =>
        Lines(files, last.mod) = HEADER_LINES \o ReadLines(last.before)

\* C2 (amended): after a candidate with content C has been moved, mod.rs
\* holds the header lines and then the lines of C when C does not begin
\* with the header, and exactly C when it does.
C2_ContentPreserved ==
    last.op = "moved" =>
        /\ ~StartsWithHeader(last.before) =>
               Lines(files, last.mod) = HEADER_LINES \o ReadLines(last.before)
        /\ StartsWithHeader(last.before) => files[last.mod].bytes = last.before

\* C2 witness: a candidate with a line of its own and no header was moved.
C2_Witness ==
    /\ last.op = "moved"
    /\ last.before = BodyBytes

\* C3 (as claimed): when a run has finished, every non-empty test.rs that
\* was in the module directory of a candidate when the run started is still
\* there, the same file with the same content.
C3_TestFileKept ==
    pc = "done" =>
        \A p \in Candidates(start.files) :
            LET tp == test_path(Parent(p), Name(p))
            IN (tp \in DOMAIN start.files /\ start.files[tp].bytes # <<>>) =>
                   (tp \in DOMAIN files /\ files[tp] = start.files[tp])

\* C4 (as claimed): when a run has finished, for every candidate D/name.rs
\* it migrated, D/name/mod.rs and D/name/test.rs exist and D/name.rs does
\* not.
C4_DirectoryCorrect ==
    pc = "done" =>
        \A p \in MigratedPaths :
            /\ mod_path(Parent(p), Name(p)) \in DOMAIN files
            /\ test_path(Parent(p), Name(p)) \in DOMAIN files
            /\ p \notin DOMAIN files

\* C5: header non-duplication.  No file begins with two copies of the header
\* block (no file of an initial tree does), and a file that begins with the
\* header has the same content after it has been processed.
C5_HeaderOnce ==
    /\ \A p \in DOMAIN files : ~StartsWithTwoHeaders(files[p].bytes)
    /\ (last.op = "moved" /\ StartsWithHeader(last.before)) =>
           files[last.mod].bytes = last.before
    /\ (last.op = "skip" /\ StartsWithHeader(last.before)) =>
           files[last.src].bytes = last.before

\* C5 witness: a later run has moved a file that began with the header.
C5_Witness ==
    /\ run = 2
    /\ last.op = "moved"
    /\ StartsWithHeader(last.before)

\* C6: skip guard.  A candidate is skipped exactly when its mod.rs exists;
\* the skip prints the notice naming that mod.rs and changes no file (none
\* moved, none modified, no test file created), and every candidate skipped
\* so far in the run is at its path with its content, through the end of
\* the run.
C6_SkipGuard ==
    /\ last.op \in {"moved", "skip"} =>
           (last.op = "skip" <=> last.mod \in DOMAIN last.pre)
    /\ last.op = "skip" =>
           /\ SkipLine(last.mod) \in out
           /\ files = last.pre
    /\ \A s \in skipped :
           s.path \in DOMAIN files /\ files[s.path].bytes = s.bytes

\* C6 witness: a run has finished after skipping a candidate of the tree it
\* started from (Scenario D).
C6_Witness ==
    /\ pc = "done"
    /\ \E s \in skipped : s.path \in DOMAIN start.files

\* C7 (as claimed): in a run no file is processed twice, under whatever
\* path, and when the run has finished every candidate of the tree it
\* started from has been processed.
C7_ExactlyOnce ==
    /\ \A s, t \in Processed : s.id = t.id => s.path = t.path
    /\ pc = "done" =>
           \A p \in Candidates(start.files) :
               \E s \in Processed : s.id = start.files[p].id

\* C8: short files.  A moved candidate with fewer lines than the header is
\* given the header: mod.rs holds the header lines, then the lines it had.
C8_ShortFile ==
    (last.op = "moved" /\ Len(ReadLines(last.before)) < Len(HEADER_LINES)) =>
        Lines(files, last.mod) = HEADER_LINES \o ReadLines(last.before)

\* C8 witness: a candidate holding the first two header lines only was moved.
C8_Witness ==
    /\ last.op = "moved"
    /\ last.before = <<CfgText, NL, PubModText, NL>>

\* The number of iterations of the inner loop a run can make, from the tree
\* it starts from: every file once, and two more files for each directory.
StepBound ==
    Cardinality(DOMAIN start.files) + 2 * (Cardinality(start.dirs) - 1)

\* C9: termination.  A run only lists directories that existed when it
\* started, makes at most StepBound iterations of the inner loop, and
\* finishes.
C9_Terminates ==
    /\ [](entered \subseteq start.dirs /\ Cardinality(seen) <= StepBound)
    /\ (pc = "walk") ~> (pc = "done")

\* C9 witness: a run has finished after creating directories under a
\* directory it went on to list.
C9_Witness ==
    /\ pc = "done"
    /\ \E d \in dirs \ start.dirs : Parent(d) \in entered \ {ROOT}

\* The files never get fewer, and a move never lands on an existing file.
NoFileLost ==
    /\ last.op = "moved" => last.mod \notin DOMAIN last.pre
    /\ last.op # "none" => Cardinality(DOMAIN files) >= Cardinality(DOMAIN last.pre)
    /\ Cardinality(DOMAIN files) >= Cardinality(DOMAIN start.files)
    /\ Cardinality(DOMAIN start.files) >= Cardinality(DOMAIN orig)

\* C10 (as claimed): no overwrite, no loss, and the lines of every file of
\* the initial tree are the content, or the end of the content, of exactly
\* one file.
C10_ExactlyOneHolder ==
    /\ NoFileLost
    /\ \A p \in DOMAIN orig :
           Cardinality({q \in DOMAIN files :
               IsSuffix(ReadLines(orig[p].bytes), Lines(files, q))}) = 1

\* C10 (amended): no overwrite, no loss, and every file of the initial tree
\* is still exactly one file under ROOT, whose content is, or ends with,
\* the lines the file had.
C10_NoLoss ==
    /\ NoFileLost
    /\ \A p \in DOMAIN orig :
           /\ Cardinality({q \in DOMAIN files : files[q].id = orig[p].id}) = 1
           /\ \A q \in DOMAIN files :
                  files[q].id = orig[p].id =>
                      IsSuffix(ReadLines(orig[p].bytes), Lines(files, q))

\* C10 witness: two runs have finished and a file of the initial tree that
\* had lines is no longer at its path.
C10_Witness ==
    /\ pc = "done"
    /\ run = 2
    /\ \E p \in DOMAIN orig : p \notin DOMAIN files /\ orig[p].bytes # <<>>

====
